---- MODULE Spec2Model ----
(***************************************************************************)
(* Model of src/index.js: a GraphQL server (queries, mutations and         *)
(* subscriptions over users, events, locations and participants) whose     *)
(* resolvers parse ./data.json on every call, work on that private copy,   *)
(* publish on an in-process PubSub and return.                             *)
(*                                                                         *)
(* A resolver is async: it runs up to `await readData()` when it is        *)
(* called (action Call) and its continuation, which gets the parsed file   *)
(* and runs the rest of the body without another await, is one action      *)
(* named after the resolver.                                               *)
(***************************************************************************)
EXTENDS Integers, Sequences, FiniteSets

(***************************************************************************)
(* Bounds of the model.                                                    *)
(***************************************************************************)
\* number of query/mutation requests clients issue in one behaviour
MaxReqs == 2
\* number of subscriptions clients register in one behaviour
MaxSubs == 1
\* the most subscriptions there are once one without filter has been made
MaxListeners == 2

(***************************************************************************)
(* JavaScript values.  A string is its sequence of characters, so that     *)
(* parseInt and String compute on the text; ids, which the code converts   *)
(* and compares with ===, are such values.  Free text (names, titles) is   *)
(* never converted and is written as a TLA+ string; Float fields are       *)
(* integers.                                                               *)
(***************************************************************************)
Undefined == [t |-> "undefined", n |-> 0, s |-> <<>>]
NaN == [t |-> "NaN", n |-> 0, s |-> <<>>]
Num(n) == [t |-> "number", n |-> n, s |-> <<>>]
Str(s) == [t |-> "string", n |-> 0, s |-> s]

\* a === b on ids: same type and same value, NaN equal to nothing
StrictEquals(a, b) == a.t = b.t /\ a.t # "NaN" /\ a = b

\* the condition of `v ? x : y`
Truthy(v) ==
  CASE v.t = "string" -> v.s # <<>>
    [] v.t = "number" -> v.n # 0
    [] OTHER -> FALSE

Digits == <<"0", "1", "2", "3", "4", "5", "6", "7", "8", "9">>
IsDigit(c) == \E d \in 1..10 : Digits[d] = c
DigitVal(c) == (CHOOSE d \in 1..10 : Digits[d] = c) - 1

\* String(n) for an integer n >= 0: its decimal digits
RECURSIVE String(_)
String(n) ==
  IF n < 10 THEN <<Digits[n + 1]>>
  ELSE String(n \div 10) \o <<Digits[(n % 10) + 1]>>

\* the value of the longest prefix of digits of s, continuing from acc
RECURSIVE ParseDigits(_, _)
ParseDigits(s, acc) ==
  IF s = <<>> \/ ~IsDigit(Head(s)) THEN acc
  ELSE ParseDigits(Tail(s), 10 * acc + DigitVal(Head(s)))

RECURSIVE TrimStart(_)
TrimStart(s) == IF s # <<>> /\ Head(s) = " " THEN TrimStart(Tail(s)) ELSE s

\* parseInt(v) of a string: leading blanks skipped, an optional sign, then
\* the longest run of digits; NaN when there is no digit there
parseInt(v) ==
  LET t == TrimStart(v.s)
      neg == t # <<>> /\ Head(t) = "-"
      u == IF t # <<>> /\ Head(t) \in {"-", "+"} THEN Tail(t) ELSE t
  IN IF u = <<>> \/ ~IsDigit(Head(u)) THEN NaN
     ELSE Num((IF neg THEN -1 ELSE 1) * ParseDigits(u, 0))

(***************************************************************************)
(* Objects are functions from field names to values.                       *)
(***************************************************************************)
EmptyObject == [f \in {} |-> Undefined]

\* {...a, ...b}: the fields of both, those of b winning
Spread(a, b) ==
  [f \in DOMAIN a \cup DOMAIN b |-> IF f \in DOMAIN b THEN b[f] ELSE a[f]]

\* o.f, undefined when o has no field f
Field(o, f) == IF f \in DOMAIN o THEN o[f] ELSE Undefined

\* arr.findIndex((x) => x.id === v): the 0-based index of the first element
\* whose id is strictly equal to v, or -1
findIndex(arr, v) ==
  IF \E i \in 1..Len(arr) : StrictEquals(arr[i].id, v)
  THEN (CHOOSE i \in 1..Len(arr) :
          /\ StrictEquals(arr[i].id, v)
          /\ \A j \in 1..(i - 1) : ~StrictEquals(arr[j].id, v)) - 1
  ELSE -1

\* arr.splice(start, count): arr without count elements from 0-based start
splice(arr, start, count) ==
  SubSeq(arr, 1, start) \o SubSeq(arr, start + count + 1, Len(arr))

(***************************************************************************)
(* ./data.json.  The code fixes neither the ids' JSON type nor the         *)
(* collections' content; two documents are used: one whose ids are JSON    *)
(* strings and one whose ids are JSON numbers.                             *)
(***************************************************************************)
Collections == {"users", "events", "locations", "participants"}

StringIdData ==
  [users |-> << [id |-> Str(<<"1">>), username |-> "alice", email |-> "a@x.com"],
                [id |-> Str(<<"3">>), username |-> "bob", email |-> "b@x.com"] >>,
   events |-> << [id |-> Str(<<"e", "1">>), title |-> "Meetup", desc |-> "Monthly",
                  date |-> "2024-01-01", user_id |-> Str(<<"1">>)] >>,
   locations |-> << >>,
   participants |-> << [id |-> Str(<<"p", "1">>), user_id |-> Str(<<"1">>),
                        event_id |-> Str(<<"e", "1">>)] >>]

NumberIdData ==
  [users |-> << [id |-> Num(1), username |-> "alice", email |-> "a@x.com"],
                [id |-> Num(2), username |-> "bob", email |-> "b@x.com"] >>,
   events |-> << [id |-> Num(1), title |-> "Meetup", desc |-> "Monthly",
                  date |-> "2024-01-01", user_id |-> Num(1)] >>,
   locations |-> << [id |-> Num(1), name |-> "Cafe", desc |-> "Corner",
                     lat |-> 3, lng |-> 4] >>,
   participants |-> << [id |-> Num(1), user_id |-> Num(2), event_id |-> Num(1)] >>]

DataFiles == {StringIdData, NumberIdData}

VARIABLES
  file,      \* the content of ./data.json
  file0,     \* history: the content of ./data.json when the server started
  reqs,      \* the query and mutation requests, in the order they were called
  subs,      \* the subscriptions: PubSub listeners with their queues
  nano,      \* the number of ids nanoid() has generated
  readable,  \* ./data.json exists and is valid JSON
  published, \* history: the calls of pubsub.publish, in order
  timers,    \* the number of setTimeout callbacks not yet run
  alive      \* the process is running

vars == <<file, file0, reqs, subs, nano, readable, published, timers, alive>>

\* a document whose collections are empty
NoDocument == [c \in Collections |-> <<>>]

\* readData(): the parsed content of the file
readData == file

\* nanoid(): a random 21-character id; collisions are improbable enough that
\* the k-th call is modelled as returning the k-th of a sequence of distinct ids
nanoid(k) == Str(<<"V", "_">> \o String(k))

(***************************************************************************)
(* Results of resolvers, as the GraphQL layer sees them.                   *)
(***************************************************************************)
Pending == [kind |-> "pending", recs |-> <<>>, count |-> 0, message |-> ""]
\* return of an object
Value(o) == [kind |-> "value", recs |-> <<o>>, count |-> 0, message |-> ""]
\* return of undefined (find found nothing): the field is null
Null == [kind |-> "null", recs |-> <<>>, count |-> 0, message |-> ""]
\* return of an array
List(arr) == [kind |-> "list", recs |-> arr, count |-> 0, message |-> ""]
\* return of {count: n}
Count(n) == [kind |-> "count", recs |-> <<>>, count |-> n, message |-> ""]
\* throw new Error(m)
Error(m) == [kind |-> "error", recs |-> <<>>, count |-> 0, message |-> m]

(***************************************************************************)
(* Requests.  A request is a resolver call with its arguments: op names    *)
(* the resolver, id is the `id` argument and data the `data` argument      *)
(* (Undefined and the empty object where the resolver has none).  The      *)
(* GraphQL layer coerces every ID argument to a string.  after is history: *)
(* the requests that had completed when this one was called.               *)
(***************************************************************************)
Request(op, id, data) == [op |-> op, id |-> id, data |-> data]

UserInputs == { [username |-> "carol", email |-> "c@x.com"] }
UserPatches == { EmptyObject, [email |-> "alice@new.com"] }
BaseEvent == [title |-> "Party", desc |-> "Annual", date |-> "2024-02-02"]
EventInputs ==
  { BaseEvent,
    Spread(BaseEvent, [user_id |-> Str(<<"1">>)]),
    Spread(BaseEvent, [user_id |-> Str(<<"2">>)]) }
EventPatches == { EmptyObject, [title |-> "Gala"] }
LocationInputs == { [name |-> "HQ", desc |-> "Main office", lat |-> 1, lng |-> 2] }
LocationPatches == { EmptyObject, [name |-> "Lab"] }
ParticipantInputs ==
  { [user_id |-> Str(<<"1">>), event_id |-> Str(<<"e", "1">>)],
    [user_id |-> Str(<<"2">>), event_id |-> Str(<<"e", "1">>)] }
ParticipantPatches == { EmptyObject, [event_id |-> Str(<<"1">>)] }

UserIds == { Str(<<"1">>), Str(<<"3">>), Str(<<"1", "x">>) }
EventIds == { Str(<<"1">>), Str(<<"e", "1">>), Str(<<"1", "x">>) }
LocationIds == { Str(<<"1">>), nanoid(1) }
ParticipantIds == { Str(<<"1">>), Str(<<"p", "1">>) }

Calls ==
  { Request(op, Undefined, EmptyObject) :
      op \in {"users", "events", "locations", "participants", "deleteAllUsers",
              "deleteAllEvents", "deleteAllLocations", "deleteAllParticipants"} }
  \cup { Request("addUser", Undefined, d) : d \in UserInputs }
  \cup { Request("addEvent", Undefined, d) : d \in EventInputs }
  \cup { Request("addLocation", Undefined, d) : d \in LocationInputs }
  \cup { Request("addParticipant", Undefined, d) : d \in ParticipantInputs }
  \cup { Request(op, i, EmptyObject) : op \in {"user", "deleteUser"}, i \in UserIds }
  \cup { Request(op, i, EmptyObject) : op \in {"event", "deleteEvent"}, i \in EventIds }
  \cup { Request(op, i, EmptyObject) :
           op \in {"location", "deleteLocation"}, i \in LocationIds }
  \cup { Request(op, i, EmptyObject) :
           op \in {"participant", "deleteParticipant"}, i \in ParticipantIds }
  \cup { Request("updateUser", i, d) : i \in UserIds, d \in UserPatches }
  \cup { Request("updateEvent", i, d) : i \in EventIds, d \in EventPatches }
  \cup { Request("updateLocation", i, d) : i \in LocationIds, d \in LocationPatches }
  \cup { Request("updateParticipant", i, d) :
           i \in ParticipantIds, d \in ParticipantPatches }

\* the user_id argument of a filtered subscription: absent, or any string
UserIdArgs == { Undefined, Str(<<>>), Str(<<"1">>) }

\* the server has started; nothing has been called
Started ==
  /\ file \in DataFiles
  /\ file0 = file
  /\ reqs = <<>>
  /\ subs = <<>>
  /\ nano = 0
  /\ published = <<>>
  /\ timers = 0
  /\ alive = TRUE

\* ./data.json is in place
Init == Started /\ readable = TRUE

\* ./data.json is in place, or is missing or not valid JSON
InitAnyFile == Started /\ readable \in BOOLEAN

\* a resolver is called, with one of the calls W, and runs up to its
\* `await readData()`; jsonData is the copy of the document the call works on
CallOf(W) ==
  /\ alive
  /\ Len(reqs) < MaxReqs
  /\ \E c \in W :
       reqs' = Append(reqs, [op |-> c.op, id |-> c.id, data |-> c.data,
                             pc |-> "await", result |-> Pending,
                             jsonData |-> NoDocument,
                             after |-> {j \in DOMAIN reqs : reqs[j].pc = "done"}])
  /\ UNCHANGED <<file, file0, subs, nano, readable, published, timers, alive>>

Call == CallOf(Calls)

\* request r is op, suspended at its await
Awaiting(r, op) == r \in DOMAIN reqs /\ reqs[r].op = op /\ reqs[r].pc = "await"

\* request r is op and readData has given it the parsed document
Resumed(r, op) == alive /\ readable /\ Awaiting(r, op)

\* the resolver of request r returns or throws, leaving its copy of the
\* document as jsonData
Return(r, jsonData, res) ==
  reqs' = [reqs EXCEPT ![r].pc = "done", ![r].result = res,
                       ![r].jsonData = jsonData]

\* fs.readFile or JSON.parse throws in readData: the resolver awaiting it
\* throws that error and runs no further
readData_throws(r) ==
  /\ alive /\ ~readable
  /\ r \in DOMAIN reqs /\ reqs[r].pc = "await"
  /\ Return(r, reqs[r].jsonData, Error("readData failed"))
  /\ UNCHANGED <<file, file0, subs, nano, readable, published, timers, alive>>

(***************************************************************************)
(* PubSub (graphql-subscriptions): publish hands the payload to every      *)
(* listener of the topic, each with a queue of its own; a payload is the   *)
(* object {topic: entity}.                                                 *)
(***************************************************************************)
Payload(key, entity) == [k \in {key} |-> entity]

\* publish, were a listener to be given the newest payload first
publish_newestFirst(topic, payload) ==
  /\ subs' = [s \in DOMAIN subs |->
                IF subs[s].topic = topic
                THEN [subs[s] EXCEPT !.queue = <<payload>> \o @]
                ELSE subs[s]]
  /\ published' = Append(published, [topic |-> topic, payload |-> payload])

\* publish, were the listeners of a topic to compete for its payloads: the
\* payload goes to the first of them only
publish_toFirst(topic, payload) ==
  /\ subs' = [s \in DOMAIN subs |->
                IF /\ subs[s].topic = topic
                   /\ \A t \in 1..(s - 1) : subs[t].topic # topic
                THEN [subs[s] EXCEPT !.queue = Append(@, payload)]
                ELSE subs[s]]
  /\ published' = Append(published, [topic |-> topic, payload |-> payload])

publish(topic, payload) ==
  /\ subs' = [s \in DOMAIN subs |->
                IF subs[s].topic = topic
                THEN [subs[s] EXCEPT !.queue = Append(@, payload)]
                ELSE subs[s]]
  /\ published' = Append(published, [topic |-> topic, payload |-> payload])

(***************************************************************************)
(* Query resolvers.  arr.find((x) => x.id === id) is the element at the     *)
(* index findIndex gives, and undefined, which the GraphQL layer returns   *)
(* as null, when there is none.                                            *)
(***************************************************************************)

Query_users(r) ==
  /\ Resumed(r, "users")
  /\ LET data == readData
     IN Return(r, data, List(data.users))
  /\ UNCHANGED <<file, file0, subs, nano, readable, published, timers, alive>>

Query_user(r) ==
  /\ Resumed(r, "user")
  /\ LET data == readData
         id == reqs[r].id
         index == findIndex(data.users, id)
     IN Return(r, data, IF index = -1 THEN Null ELSE Value(data.users[index + 1]))
  /\ UNCHANGED <<file, file0, subs, nano, readable, published, timers, alive>>

Query_events(r) ==
  /\ Resumed(r, "events")
  /\ LET data == readData
     IN Return(r, data, List(data.events))
  /\ UNCHANGED <<file, file0, subs, nano, readable, published, timers, alive>>

Query_event(r) ==
  /\ Resumed(r, "event")
  /\ LET data == readData
         id == reqs[r].id
         index == findIndex(data.events, id)
     IN Return(r, data, IF index = -1 THEN Null ELSE Value(data.events[index + 1]))
  /\ UNCHANGED <<file, file0, subs, nano, readable, published, timers, alive>>

Query_locations(r) ==
  /\ Resumed(r, "locations")
  /\ LET data == readData
     IN Return(r, data, List(data.locations))
  /\ UNCHANGED <<file, file0, subs, nano, readable, published, timers, alive>>

Query_location(r) ==
  /\ Resumed(r, "location")
  /\ LET data == readData
         id == reqs[r].id
         index == findIndex(data.locations, id)
     IN Return(r, data, IF index = -1 THEN Null ELSE Value(data.locations[index + 1]))
  /\ UNCHANGED <<file, file0, subs, nano, readable, published, timers, alive>>

Query_participants(r) ==
  /\ Resumed(r, "participants")
  /\ LET data == readData
     IN Return(r, data, List(data.participants))
  /\ UNCHANGED <<file, file0, subs, nano, readable, published, timers, alive>>

Query_participant(r) ==
  /\ Resumed(r, "participant")
  /\ LET data == readData
         id == reqs[r].id
         index == findIndex(data.participants, id)
     IN Return(r, data, IF index = -1 THEN Null ELSE Value(data.participants[index + 1]))
  /\ UNCHANGED <<file, file0, subs, nano, readable, published, timers, alive>>


(***************************************************************************)
(* Mutation resolvers.  Each works on jsonData, the copy readData parsed   *)
(* for this call; push, splice and the assignment to an element change     *)
(* that copy only, which the request keeps, and no resolver writes the     *)
(* file.                                                                   *)
(***************************************************************************)

\* addUser, were it to write its document back to ./data.json
addUser_saves(r) ==
  /\ Resumed(r, "addUser")
  /\ LET jsonData == readData
         users == jsonData.users
         data == reqs[r].data
         user == Spread([id |-> Str(String(Len(users) + 1))], data)
         saved == [jsonData EXCEPT !.users = Append(users, user)]
     IN /\ publish("userCreated", Payload("userCreated", user))
        /\ file' = saved
        /\ Return(r, saved, Value(user))
  /\ UNCHANGED <<file0, nano, readable, timers, alive>>

addUser(r) ==
  /\ Resumed(r, "addUser")
  /\ LET jsonData == readData
         users == jsonData.users
         data == reqs[r].data
         user == Spread([id |-> Str(String(Len(users) + 1))], data)
     IN /\ publish("userCreated", Payload("userCreated", user))
        /\ Return(r, [jsonData EXCEPT !.users = Append(users, user)], Value(user))
  /\ UNCHANGED <<file, file0, nano, readable, timers, alive>>

updateUser(r) ==
  /\ Resumed(r, "updateUser")
  /\ LET jsonData == readData
         users == jsonData.users
         id == reqs[r].id
         data == reqs[r].data
         user_index == findIndex(users, parseInt(id))
     IN IF user_index = -1
        THEN /\ Return(r, jsonData, Error("User not found"))
             /\ UNCHANGED <<subs, published>>
        ELSE LET updated_user == Spread(users[user_index + 1], data)
             IN /\ publish("userUpdated", Payload("userUpdated", updated_user))
                /\ Return(r, [jsonData EXCEPT !.users[user_index + 1] = updated_user],
                          Value(updated_user))
  /\ UNCHANGED <<file, file0, nano, readable, timers, alive>>

\* deleteUser, were it to remove the events of the user with it
deleteUser_cascade(r) ==
  /\ Resumed(r, "deleteUser")
  /\ LET jsonData == readData
         users == jsonData.users
         id == reqs[r].id
         user_index == findIndex(users, parseInt(id))
     IN IF user_index = -1
        THEN /\ Return(r, jsonData, Error("User not found"))
             /\ UNCHANGED <<subs, published>>
        ELSE LET user == users[user_index + 1]
                 events == SelectSeq(jsonData.events,
                                     LAMBDA e : ~StrictEquals(e.user_id, user.id))
             IN /\ publish("userDeleted", Payload("userDeleted", user))
                /\ Return(r, [jsonData EXCEPT !.users = splice(users, user_index, 1),
                                              !.events = events],
                          Value(user))
  /\ UNCHANGED <<file, file0, nano, readable, timers, alive>>

deleteUser(r) ==
  /\ Resumed(r, "deleteUser")
  /\ LET jsonData == readData
         users == jsonData.users
         id == reqs[r].id
         user_index == findIndex(users, parseInt(id))
     IN IF user_index = -1
        THEN /\ Return(r, jsonData, Error("User not found"))
             /\ UNCHANGED <<subs, published>>
        ELSE LET user == users[user_index + 1]
             IN /\ publish("userDeleted", Payload("userDeleted", user))
                /\ Return(r, [jsonData EXCEPT !.users = splice(users, user_index, 1)],
                          Value(user))
  /\ UNCHANGED <<file, file0, nano, readable, timers, alive>>

\* deleteAllUsers, were it to publish the removal of a record
deleteAllUsers_fanOut(r) ==
  /\ Resumed(r, "deleteAllUsers")
  /\ LET jsonData == readData
         users == jsonData.users
         length == Len(users)
     IN /\ IF length = 0
           THEN UNCHANGED <<subs, published>>
           ELSE publish("userDeleted", Payload("userDeleted", users[1]))
        /\ Return(r, [jsonData EXCEPT !.users = splice(users, 0, length)],
                  Count(length))
  /\ UNCHANGED <<file, file0, nano, readable, timers, alive>>

deleteAllUsers(r) ==
  /\ Resumed(r, "deleteAllUsers")
  /\ LET jsonData == readData
         length == Len(jsonData.users)
     IN Return(r, [jsonData EXCEPT !.users = splice(jsonData.users, 0, length)],
               Count(length))
  /\ UNCHANGED <<file, file0, subs, nano, readable, published, timers, alive>>

addEvent(r) ==
  /\ Resumed(r, "addEvent")
  /\ LET jsonData == readData
         events == jsonData.events
         data == reqs[r].data
         event == Spread([id |-> nanoid(nano + 1)], data)
     IN /\ publish("eventCreated", Payload("eventCreated", event))
        /\ Return(r, [jsonData EXCEPT !.events = Append(events, event)], Value(event))
  /\ nano' = nano + 1 /\ UNCHANGED <<file, file0, readable, timers, alive>>

updateEvent(r) ==
  /\ Resumed(r, "updateEvent")
  /\ LET jsonData == readData
         events == jsonData.events
         id == reqs[r].id
         data == reqs[r].data
         event_index == findIndex(events, parseInt(id))
     IN IF event_index = -1
        THEN /\ Return(r, jsonData, Error("Event not found"))
             /\ UNCHANGED <<subs, published>>
        ELSE LET updated_event == Spread(events[event_index + 1], data)
             IN /\ publish("eventUpdated", Payload("eventUpdated", updated_event))
                /\ Return(r, [jsonData EXCEPT !.events[event_index + 1] =
                                updated_event],
                          Value(updated_event))
  /\ UNCHANGED <<file, file0, nano, readable, timers, alive>>

deleteEvent(r) ==
  /\ Resumed(r, "deleteEvent")
  /\ LET jsonData == readData
         events == jsonData.events
         id == reqs[r].id
         event_index == findIndex(events, parseInt(id))
     IN IF event_index = -1
        THEN /\ Return(r, jsonData, Error("Event not found"))
             /\ UNCHANGED <<subs, published>>
        ELSE LET event == events[event_index + 1]
             IN /\ publish("eventDeleted", Payload("eventDeleted", event))
                /\ Return(r, [jsonData EXCEPT !.events =
                                splice(events, event_index, 1)],
                          Value(event))
  /\ UNCHANGED <<file, file0, nano, readable, timers, alive>>

deleteAllEvents(r) ==
  /\ Resumed(r, "deleteAllEvents")
  /\ LET jsonData == readData
         length == Len(jsonData.events)
     IN Return(r, [jsonData EXCEPT !.events = splice(jsonData.events, 0, length)],
               Count(length))
  /\ UNCHANGED <<file, file0, subs, nano, readable, published, timers, alive>>

addLocation(r) ==
  /\ Resumed(r, "addLocation")
  /\ LET jsonData == readData
         locations == jsonData.locations
         data == reqs[r].data
         location == Spread([id |-> nanoid(nano + 1)], data)
     IN /\ publish("locationCreated", Payload("locationCreated", location))
        /\ Return(r, [jsonData EXCEPT !.locations =
                        Append(locations, location)], Value(location))
  /\ nano' = nano + 1 /\ UNCHANGED <<file, file0, readable, timers, alive>>

\* updateLocation, were it to publish the record as it was stored
updateLocation_publishesStored(r) ==
  /\ Resumed(r, "updateLocation")
  /\ LET jsonData == readData
         locations == jsonData.locations
         id == reqs[r].id
         data == reqs[r].data
         location_index == findIndex(locations, parseInt(id))
     IN IF location_index = -1
        THEN /\ Return(r, jsonData, Error("Location not found"))
             /\ UNCHANGED <<subs, published>>
        ELSE LET location == locations[location_index + 1]
                 updated_location == Spread(location, data)
             IN /\ publish("locationUpdated", Payload("locationUpdated", location))
                /\ Return(r, [jsonData EXCEPT !.locations[location_index + 1] =
                                updated_location],
                          Value(updated_location))
  /\ UNCHANGED <<file, file0, nano, readable, timers, alive>>

updateLocation(r) ==
  /\ Resumed(r, "updateLocation")
  /\ LET jsonData == readData
         locations == jsonData.locations
         id == reqs[r].id
         data == reqs[r].data
         location_index == findIndex(locations, parseInt(id))
     IN IF location_index = -1
        THEN /\ Return(r, jsonData, Error("Location not found"))
             /\ UNCHANGED <<subs, published>>
        ELSE LET updated_location == Spread(locations[location_index + 1], data)
             IN /\ publish("locationUpdated",
                           Payload("locationUpdated", updated_location))
                /\ Return(r, [jsonData EXCEPT !.locations[location_index + 1] =
                                updated_location],
                          Value(updated_location))
  /\ UNCHANGED <<file, file0, nano, readable, timers, alive>>

deleteLocation(r) ==
  /\ Resumed(r, "deleteLocation")
  /\ LET jsonData == readData
         locations == jsonData.locations
         id == reqs[r].id
         location_index == findIndex(locations, parseInt(id))
     IN IF location_index = -1
        THEN /\ Return(r, jsonData, Error("Location not found"))
             /\ UNCHANGED <<subs, published>>
        ELSE LET location == locations[location_index + 1]
             IN /\ publish("locationDeleted", Payload("locationDeleted", location))
                /\ Return(r, [jsonData EXCEPT !.locations =
                                splice(locations, location_index, 1)],
                          Value(location))
  /\ UNCHANGED <<file, file0, nano, readable, timers, alive>>

deleteAllLocations(r) ==
  /\ Resumed(r, "deleteAllLocations")
  /\ LET jsonData == readData
         length == Len(jsonData.locations)
     IN Return(r, [jsonData EXCEPT !.locations = splice(jsonData.locations, 0, length)],
               Count(length))
  /\ UNCHANGED <<file, file0, subs, nano, readable, published, timers, alive>>

addParticipant(r) ==
  /\ Resumed(r, "addParticipant")
  /\ LET jsonData == readData
         participants == jsonData.participants
         data == reqs[r].data
         participant == Spread([id |-> nanoid(nano + 1)], data)
     IN /\ publish("participantAdded", Payload("participantAdded", participant))
        /\ Return(r, [jsonData EXCEPT !.participants =
                        Append(participants, participant)], Value(participant))
  /\ nano' = nano + 1 /\ UNCHANGED <<file, file0, readable, timers, alive>>

\* updateParticipant, were it to merge and publish before it looks whether
\* the record was found ({...undefined, ...data} is a copy of data)
updateParticipant_publishesFirst(r) ==
  /\ Resumed(r, "updateParticipant")
  /\ LET jsonData == readData
         participants == jsonData.participants
         id == reqs[r].id
         data == reqs[r].data
         participant_index == findIndex(participants, parseInt(id))
         updated_participant ==
           IF participant_index = -1
           THEN data
           ELSE Spread(participants[participant_index + 1], data)
     IN /\ publish("participantUpdated",
                   Payload("participantUpdated", updated_participant))
        /\ IF participant_index = -1
           THEN Return(r, jsonData, Error("Participant not found"))
           ELSE Return(r, [jsonData EXCEPT !.participants[participant_index + 1] =
                             updated_participant],
                       Value(updated_participant))
  /\ UNCHANGED <<file, file0, nano, readable, timers, alive>>

updateParticipant(r) ==
  /\ Resumed(r, "updateParticipant")
  /\ LET jsonData == readData
         participants == jsonData.participants
         id == reqs[r].id
         data == reqs[r].data
         participant_index == findIndex(participants, parseInt(id))
     IN IF participant_index = -1
        THEN /\ Return(r, jsonData, Error("Participant not found"))
             /\ UNCHANGED <<subs, published>>
        ELSE LET updated_participant == Spread(participants[participant_index + 1], data)
             IN /\ publish("participantUpdated",
                           Payload("participantUpdated", updated_participant))
                /\ Return(r, [jsonData EXCEPT !.participants[participant_index + 1] =
                                updated_participant],
                          Value(updated_participant))
  /\ UNCHANGED <<file, file0, nano, readable, timers, alive>>

deleteParticipant(r) ==
  /\ Resumed(r, "deleteParticipant")
  /\ LET jsonData == readData
         participants == jsonData.participants
         id == reqs[r].id
         participant_index == findIndex(participants, parseInt(id))
     IN IF participant_index = -1
        THEN /\ Return(r, jsonData, Error("Participant not found"))
             /\ UNCHANGED <<subs, published>>
        ELSE LET participant == participants[participant_index + 1]
             IN /\ publish("participantDeleted",
                           Payload("participantDeleted", participant))
                /\ Return(r, [jsonData EXCEPT !.participants =
                                splice(participants, participant_index, 1)],
                          Value(participant))
  /\ UNCHANGED <<file, file0, nano, readable, timers, alive>>

deleteAllParticipants(r) ==
  /\ Resumed(r, "deleteAllParticipants")
  /\ LET jsonData == readData
         length == Len(jsonData.participants)
     IN Return(r, [jsonData EXCEPT !.participants =
                     splice(jsonData.participants, 0, length)],
               Count(length))
  /\ UNCHANGED <<file, file0, subs, nano, readable, published, timers, alive>>

(***************************************************************************)
(* Subscription resolvers with a filter.  withFilter(asyncIteratorFn,      *)
(* filterFn) gives the subscriber the payloads of the topic's listener     *)
(* for which filterFn(payload, variables) is true, in the queue's order;   *)
(* variables are the subscription's arguments.  since and from are         *)
(* history: the number of requests that had been called, and of payloads   *)
(* that had been published, when the subscriber registered.                *)
(***************************************************************************)
Subscriber(topic, user_id) ==
  [topic |-> topic, user_id |-> user_id, queue |-> <<>>, since |-> Len(reqs),
   from |-> Len(published)]

\* subscribe: () => pubsub.asyncIterator(topic), a new listener of the topic
asyncIterator(topic) ==
  /\ alive
  /\ Len(subs) < MaxListeners
  /\ subs' = Append(subs, Subscriber(topic, Undefined))
  /\ UNCHANGED <<file, file0, reqs, nano, readable, published, timers, alive>>

eventCreated_filterFn(payload, variables) ==
  IF Truthy(variables.user_id)
  THEN StrictEquals(Field(payload.eventCreated, "user_id"), variables.user_id)
  ELSE TRUE

participantAdded_filterFn(payload, variables) ==
  IF Truthy(variables.user_id)
  THEN StrictEquals(Field(payload.participantAdded, "user_id"), variables.user_id)
  ELSE TRUE

eventCreated ==
  /\ alive
  /\ Len(subs) < MaxSubs
  /\ \E user_id \in UserIdArgs :
       subs' = Append(subs, Subscriber("eventCreated", user_id))
  /\ UNCHANGED <<file, file0, reqs, nano, readable, published, timers, alive>>

participantAdded ==
  /\ alive
  /\ Len(subs) < MaxSubs
  /\ \E user_id \in UserIdArgs :
       subs' = Append(subs, Subscriber("participantAdded", user_id))
  /\ UNCHANGED <<file, file0, reqs, nano, readable, published, timers, alive>>

(***************************************************************************)
(* Subscription resolvers without a filter: the subscriber is given every  *)
(* payload of the topic's listener.                                        *)
(***************************************************************************)
userCreated == asyncIterator("userCreated")
userUpdated == asyncIterator("userUpdated")
userDeleted == asyncIterator("userDeleted")
eventUpdated == asyncIterator("eventUpdated")
eventDeleted == asyncIterator("eventDeleted")
locationCreated == asyncIterator("locationCreated")
locationUpdated == asyncIterator("locationUpdated")
locationDeleted == asyncIterator("locationDeleted")
participantUpdated == asyncIterator("participantUpdated")
participantDeleted == asyncIterator("participantDeleted")

\* eventCount: setTimeout(callback) with no delay, then a listener of eventCount
eventCount ==
  /\ alive
  /\ Len(subs) < MaxListeners
  /\ subs' = Append(subs, Subscriber("eventCount", Undefined))
  /\ timers' = timers + 1
  /\ UNCHANGED <<file, file0, reqs, nano, readable, published, alive>>

\* the callback eventCount scheduled runs: it evaluates events.length, and no
\* `events` is declared in its scope (the module declares none; the resolvers'
\* `events` are locals of other functions).  The module is an ES module, so
\* the read throws ReferenceError before publish is called; nothing catches
\* an exception thrown in a timer callback, and the process ends.
eventCount_timeout ==
  /\ alive
  /\ timers > 0
  /\ timers' = timers - 1
  /\ alive' = FALSE
  /\ UNCHANGED <<file, file0, reqs, subs, nano, readable, published>>

\* the payloads subscriber s has been given so far
Delivered(s) ==
  LET variables == [user_id |-> subs[s].user_id]
  IN CASE subs[s].topic = "eventCreated" ->
            SelectSeq(subs[s].queue, LAMBDA p : eventCreated_filterFn(p, variables))
       [] subs[s].topic = "participantAdded" ->
            SelectSeq(subs[s].queue,
                      LAMBDA p : participantAdded_filterFn(p, variables))
       [] OTHER -> subs[s].queue

Resolve(r) ==
  \/ Query_users(r) \/ Query_user(r)
  \/ Query_events(r) \/ Query_event(r)
  \/ Query_locations(r) \/ Query_location(r)
  \/ Query_participants(r) \/ Query_participant(r)
  \/ addUser(r) \/ updateUser(r) \/ deleteUser(r) \/ deleteAllUsers(r)
  \/ addEvent(r) \/ updateEvent(r) \/ deleteEvent(r) \/ deleteAllEvents(r)
  \/ addLocation(r) \/ updateLocation(r) \/ deleteLocation(r)
  \/ deleteAllLocations(r)
  \/ addParticipant(r) \/ updateParticipant(r) \/ deleteParticipant(r)
  \/ deleteAllParticipants(r)

Next ==
  \/ Call
  \/ eventCreated
  \/ participantAdded
  \/ \E r \in 1..MaxReqs : Resolve(r)

Spec == Init /\ [][Next]_vars

(***************************************************************************)
(* The server under narrower workloads: the same resolvers, called with    *)
(* fewer different arguments, so that more calls and more subscriptions    *)
(* can be followed.                                                        *)
(***************************************************************************)

\* every mutation once: on the document with number ids the updates and
\* deletes find their record, on the one with string ids they do not
MutationCalls ==
  { Request(op, Undefined, EmptyObject) :
      op \in {"deleteAllUsers", "deleteAllEvents", "deleteAllLocations",
              "deleteAllParticipants"} }
  \cup { Request("addUser", Undefined, d) : d \in UserInputs }
  \cup { Request("addEvent", Undefined, BaseEvent) }
  \cup { Request("addLocation", Undefined, d) : d \in LocationInputs }
  \cup { Request("addParticipant", Undefined,
                 [user_id |-> Str(<<"1">>), event_id |-> Str(<<"e", "1">>)]) }
  \cup { Request(op, Str(<<"1">>), EmptyObject) :
           op \in {"deleteUser", "deleteEvent", "deleteLocation",
                   "deleteParticipant"} }
  \cup { Request("updateUser", Str(<<"1">>), [email |-> "alice@new.com"]),
         Request("updateEvent", Str(<<"1">>), [title |-> "Gala"]),
         Request("updateLocation", Str(<<"1">>), [name |-> "Lab"]),
         Request("updateParticipant", Str(<<"1">>), [event_id |-> Str(<<"1">>)]) }

\* the mutations, with ./data.json in place or not
NextMutations ==
  \/ CallOf(MutationCalls)
  \/ \E r \in 1..MaxReqs :
       \/ readData_throws(r)
       \/ addUser(r) \/ updateUser(r) \/ deleteUser(r) \/ deleteAllUsers(r)
       \/ addEvent(r) \/ updateEvent(r) \/ deleteEvent(r) \/ deleteAllEvents(r)
       \/ addLocation(r) \/ updateLocation(r) \/ deleteLocation(r)
       \/ deleteAllLocations(r)
       \/ addParticipant(r) \/ updateParticipant(r) \/ deleteParticipant(r)
       \/ deleteAllParticipants(r)

SpecMutations == InitAnyFile /\ [][NextMutations]_vars

\* every query and every mutation once
ResolverCalls ==
  MutationCalls
  \cup { Request(op, Undefined, EmptyObject) :
           op \in {"users", "events", "locations", "participants"} }
  \cup { Request(op, Str(<<"1">>), EmptyObject) :
           op \in {"user", "event", "location", "participant"} }

\* the queries and the mutations
NextResolvers == CallOf(ResolverCalls) \/ \E r \in 1..MaxReqs : Resolve(r)

SpecResolvers == Init /\ [][NextResolvers]_vars

UserCalls ==
  { Request("addUser", Undefined, d) : d \in UserInputs }
  \cup { Request("deleteUser", Str(<<"1">>), EmptyObject) }

\* the subscriptions to the user topics, with the mutations that publish to
\* two of them
NextUsers ==
  \/ CallOf(UserCalls)
  \/ userCreated \/ userUpdated \/ userDeleted
  \/ \E r \in 1..MaxReqs : addUser(r) \/ deleteUser(r)

SpecUsers == Init /\ [][NextUsers]_vars

OrderCalls ==
  { Request("addEvent", Undefined, Spread(BaseEvent, [user_id |-> Str(<<"1">>)])),
    Request("addEvent", Undefined, Spread(BaseEvent, [user_id |-> Str(<<"2">>)])) }

\* the filtered subscription to eventCreated, with the mutation that
\* publishes to it
NextOrder ==
  \/ CallOf(OrderCalls)
  \/ eventCreated
  \/ \E r \in 1..MaxReqs : addEvent(r)

SpecOrder == Init /\ [][NextOrder]_vars

EventCalls ==
  { Request("addEvent", Undefined, d) : d \in EventInputs }
  \cup { Request("updateEvent", Str(<<"1">>), [title |-> "Gala"]),
         Request("updateEvent", Str(<<"1">>), [title |-> "Ball"]),
         Request("deleteEvent", Str(<<"1">>), EmptyObject) }

\* the event mutations and the subscriptions to their topics
NextEvents ==
  \/ CallOf(EventCalls)
  \/ eventCreated \/ eventUpdated \/ eventDeleted
  \/ eventCount \/ eventCount_timeout
  \/ \E r \in 1..MaxReqs : addEvent(r) \/ updateEvent(r) \/ deleteEvent(r)

SpecEvents == Init /\ [][NextEvents]_vars

LocationCalls ==
  { Request("locations", Undefined, EmptyObject),
    Request("deleteAllLocations", Undefined, EmptyObject),
    Request("location", Str(<<"1">>), EmptyObject),
    Request("deleteLocation", Str(<<"1">>), EmptyObject),
    Request("updateLocation", Str(<<"1">>), [name |-> "Lab"]) }
  \cup { Request("addLocation", Undefined, d) : d \in LocationInputs }

\* the location resolvers and the subscriptions to their topics
NextLocations ==
  \/ CallOf(LocationCalls)
  \/ locationCreated \/ locationUpdated \/ locationDeleted
  \/ \E r \in 1..MaxReqs :
       \/ Query_locations(r) \/ Query_location(r)
       \/ addLocation(r) \/ updateLocation(r) \/ deleteLocation(r)
       \/ deleteAllLocations(r)

SpecLocations == Init /\ [][NextLocations]_vars

ParticipantCalls ==
  { Request("participant", nanoid(1), EmptyObject),
    Request("participant", Str(<<"1">>), EmptyObject),
    Request("deleteParticipant", Str(<<"1">>), EmptyObject),
    Request("updateParticipant", Str(<<"1">>), [event_id |-> Str(<<"1">>)]) }
  \cup { Request("addParticipant", Undefined, d) : d \in ParticipantInputs }

\* the participant resolvers and the subscriptions to their topics
NextParticipants ==
  \/ CallOf(ParticipantCalls)
  \/ participantAdded \/ participantUpdated \/ participantDeleted
  \/ \E r \in 1..MaxReqs :
       \/ Query_participant(r)
       \/ addParticipant(r) \/ updateParticipant(r) \/ deleteParticipant(r)

SpecParticipants == Init /\ [][NextParticipants]_vars

(***************************************************************************)
(* Vocabulary of the properties.                                           *)
(***************************************************************************)
Done(r) == reqs[r].pc = "done"
Returned(r) == reqs[r].result.kind = "value"
\* the entity a resolver returned
Entity(r) == reqs[r].result.recs[1]
\* request q was called after request r had completed
Follows(q, r) == r \in reqs[q].after

CreateOps == {"addUser", "addEvent", "addLocation", "addParticipant"}
UpdateOps == {"updateUser", "updateEvent", "updateLocation", "updateParticipant"}
DeleteOps == {"deleteUser", "deleteEvent", "deleteLocation", "deleteParticipant"}
DeleteAllOps ==
  {"deleteAllUsers", "deleteAllEvents", "deleteAllLocations", "deleteAllParticipants"}
GetOps == {"user", "event", "location", "participant"}

\* the collection a resolver works on, and that collection's resolvers
CollectionOf(op) ==
  CASE op \in {"users", "user", "addUser", "updateUser", "deleteUser",
               "deleteAllUsers"} -> "users"
    [] op \in {"events", "event", "addEvent", "updateEvent", "deleteEvent",
               "deleteAllEvents"} -> "events"
    [] op \in {"locations", "location", "addLocation", "updateLocation",
               "deleteLocation", "deleteAllLocations"} -> "locations"
    [] OTHER -> "participants"
NotFoundOf(op) ==
  CASE CollectionOf(op) = "users" -> Error("User not found")
    [] CollectionOf(op) = "events" -> Error("Event not found")
    [] CollectionOf(op) = "locations" -> Error("Location not found")
    [] OTHER -> Error("Participant not found")
SameCollection(q, r) == CollectionOf(reqs[q].op) = CollectionOf(reqs[r].op)
\* no create on the collection of request r has been called
NoCreateOn(r) ==
  \A c \in DOMAIN reqs : ~(reqs[c].op \in CreateOps /\ SameCollection(c, r))

\* the id of a record as clients see it (the ID scalar): a string as it is, a
\* number as its decimal text
IdText(v) == IF v.t = "number" THEN String(v.n) ELSE v.s
\* record x is the record clients know by the id argument id
HasId(x, id) == IdText(x.id) = id.s
\* the records of stored collection c that clients know by id
Stored(c, id) == {i \in DOMAIN file0[c] : HasId(file0[c][i], id)}
\* the ids of arr are pairwise different
UniqueIds(arr) ==
  \A i, j \in DOMAIN arr : i # j => IdText(arr[i].id) # IdText(arr[j].id)

\* C1: a completed create followed by a get-by-id query with the returned id
\* yields the input fields plus the assigned id; from an empty locations
\* collection, one addLocation followed by the locations query yields exactly
\* one record, with the id of the created one.
C1_CreateThenGet ==
  /\ \A c, q \in DOMAIN reqs :
       ( /\ reqs[c].op \in CreateOps /\ Returned(c)
         /\ reqs[q].op \in GetOps /\ SameCollection(q, c)
         /\ Done(q) /\ Follows(q, c)
         /\ reqs[q].id = Entity(c).id )
       => /\ Entity(c) = Spread([id |-> Entity(c).id], reqs[c].data)
          /\ reqs[q].result = Value(Entity(c))
  /\ \A c, q \in DOMAIN reqs :
       ( /\ file0.locations = <<>>
         /\ reqs[c].op = "addLocation" /\ Returned(c)
         /\ \A d \in DOMAIN reqs : reqs[d].op = "addLocation" => d = c
         /\ reqs[q].op = "locations" /\ Done(q) /\ Follows(q, c) )
       => /\ reqs[q].result.kind = "list"
          /\ Len(reqs[q].result.recs) = 1
          /\ reqs[q].result.recs[1].id = Entity(c).id

\* C2: for every stored record with id i, update(i, patch) returns the shallow
\* merge of patch over the stored record (the record itself for the empty
\* patch).
C2_UpdateReturnsMerge ==
  \A r \in DOMAIN reqs :
    (reqs[r].op \in UpdateOps /\ Done(r)) =>
      \A i \in Stored(CollectionOf(reqs[r].op), reqs[r].id) :
        LET x == file0[CollectionOf(reqs[r].op)][i]
        IN /\ reqs[r].result = Value(Spread(x, reqs[r].data))
           /\ reqs[r].data = EmptyObject => reqs[r].result = Value(x)

\* C3: update and delete find their target by the literal text of the id:
\* they fail with not-found exactly when no stored record has the supplied id.
C3_IdsComparedAsText ==
  \A r \in DOMAIN reqs :
    (reqs[r].op \in UpdateOps \cup DeleteOps /\ Done(r)) =>
      ( reqs[r].result = NotFoundOf(reqs[r].op)
        <=> Stored(CollectionOf(reqs[r].op), reqs[r].id) = {} )

\* C4: update and delete with an id no record has fail with not-found and
\* leave the collection as it was.
C4_UnknownIdFails ==
  \A r \in DOMAIN reqs :
    ( /\ reqs[r].op \in UpdateOps \cup DeleteOps /\ Done(r)
      /\ Stored(CollectionOf(reqs[r].op), reqs[r].id) = {} )
    => /\ reqs[r].result = NotFoundOf(reqs[r].op)
       /\ file[CollectionOf(reqs[r].op)] = file0[CollectionOf(reqs[r].op)]

\* C5: for every stored record with id i, delete(i) returns the record as it
\* was; a get-by-id for i started afterwards returns null and a list query
\* started afterwards still has every other record.
C5_DeleteThenGet ==
  \A d \in DOMAIN reqs :
    (reqs[d].op \in DeleteOps /\ Done(d)) =>
      \A i \in Stored(CollectionOf(reqs[d].op), reqs[d].id) :
        LET stored == file0[CollectionOf(reqs[d].op)]
        IN /\ reqs[d].result = Value(stored[i])
           /\ \A q \in DOMAIN reqs :
                ( /\ Done(q) /\ Follows(q, d) /\ SameCollection(q, d)
                  /\ NoCreateOn(d) )
                => /\ (reqs[q].op \in GetOps /\ reqs[q].id = reqs[d].id)
                        => reqs[q].result = Null
                   /\ reqs[q].op \in Collections
                        => reqs[q].result = List(splice(stored, i - 1, 1))

\* C6: deleteAll returns the number of records the collection had and leaves
\* it empty: a list query started afterwards returns no record and a second
\* deleteAll, with no create in between, returns count 0.
C6_DeleteAllEmpties ==
  \A d \in DOMAIN reqs :
    (reqs[d].op \in DeleteAllOps /\ Done(d)) =>
      /\ reqs[d].result = Count(Len(file[CollectionOf(reqs[d].op)]))
      /\ \A q \in DOMAIN reqs :
           (Done(q) /\ Follows(q, d) /\ SameCollection(q, d) /\ NoCreateOn(d)) =>
             /\ reqs[q].op \in Collections => reqs[q].result = List(<<>>)
             /\ reqs[q].op \in DeleteAllOps => reqs[q].result = Count(0)

\* C7: two creates on the same entity type that are in flight at once never
\* return two records with the same id.
C7_ConcurrentCreatesDistinct ==
  \A a, b \in DOMAIN reqs :
    ( /\ a < b /\ reqs[a].op \in CreateOps /\ reqs[b].op = reqs[a].op
      /\ ~Follows(b, a)
      /\ Returned(a) /\ Returned(b) )
    => IdText(Entity(a).id) # IdText(Entity(b).id)

\* C8: no two records of a collection have the same id; a user created by
\* addUser never receives an id that a stored user has.
C8_IdsUnique ==
  /\ \A c \in Collections : UniqueIds(file[c])
  /\ \A r \in DOMAIN reqs :
       (reqs[r].op = "addUser" /\ Returned(r)) =>
         \A i \in DOMAIN file.users :
           IdText(file.users[i].id) # IdText(Entity(r).id)

\* subscriber s has been given the notification of the entity request r returned
Notified(s, r) ==
  \E i \in DOMAIN Delivered(s) :
    Delivered(s)[i] = Payload(subs[s].topic, Entity(r))

\* C9: a subscriber of eventCreated with user_id = U is given the notification
\* of an addEvent called after it registered if and only if the call's data
\* has user_id = U.
C9_EventCreatedForUser ==
  \A s \in DOMAIN subs : \A r \in DOMAIN reqs :
    ( /\ subs[s].topic = "eventCreated" /\ subs[s].user_id # Undefined
      /\ reqs[r].op = "addEvent" /\ Returned(r) /\ r > subs[s].since )
    => (Notified(s, r) <=> Field(reqs[r].data, "user_id") = subs[s].user_id)

\* C10: the filters of eventCreated and participantAdded pass every payload
\* when user_id is not supplied and otherwise exactly the payloads whose
\* entity has the supplied user_id.
C10_FilterByUserId ==
  \A s \in DOMAIN subs :
    LET wanted(p) ==
          \/ subs[s].user_id = Undefined
          \/ Field(p[subs[s].topic], "user_id") = subs[s].user_id
    IN Delivered(s) = SelectSeq(subs[s].queue, wanted)

(***************************************************************************)
(* Publication.                                                            *)
(***************************************************************************)
\* the topic of a create, update or delete
TopicOf(op) ==
  CASE op = "addUser" -> "userCreated"
    [] op = "updateUser" -> "userUpdated"
    [] op = "deleteUser" -> "userDeleted"
    [] op = "addEvent" -> "eventCreated"
    [] op = "updateEvent" -> "eventUpdated"
    [] op = "deleteEvent" -> "eventDeleted"
    [] op = "addLocation" -> "locationCreated"
    [] op = "updateLocation" -> "locationUpdated"
    [] op = "deleteLocation" -> "locationDeleted"
    [] op = "addParticipant" -> "participantAdded"
    [] op = "updateParticipant" -> "participantUpdated"
    [] OTHER -> "participantDeleted"

\* request r completes in this step
Completes(r) == r \in DOMAIN reqs /\ reqs[r].pc = "await" /\ reqs'[r].pc = "done"

\* C11: the step in which a create, update or delete returns its entity
\* publishes exactly once, on the topic of the entity type and operation, the
\* payload that holds the returned entity; no other publication is made in it.
C11_OnePublication ==
  [][ \A r \in DOMAIN reqs :
        ( /\ Completes(r)
          /\ reqs[r].op \in CreateOps \cup UpdateOps \cup DeleteOps
          /\ reqs'[r].result.kind = "value" )
        => published' =
             Append(published,
                    [topic |-> TopicOf(reqs[r].op),
                     payload |-> Payload(TopicOf(reqs[r].op),
                                         reqs'[r].result.recs[1])]) ]_vars

\* an update has returned a merged record that differs from the stored one,
\* after a create, and both have published
C11_UpdatePublished ==
  \E c, u \in DOMAIN reqs :
    /\ reqs[c].op \in CreateOps /\ Returned(c)
    /\ reqs[u].op = "updateLocation" /\ Returned(u)
    /\ Entity(u) # file0.locations[1]
    /\ Len(published) = 2

\* C12: the step in which a deleteAll returns publishes nothing: the
\* publications made and every subscriber's queue are as they were before it.
C12_DeleteAllSilent ==
  [][ \A r \in DOMAIN reqs :
        (Completes(r) /\ reqs[r].op \in DeleteAllOps)
        => (published' = published /\ subs' = subs) ]_vars

\* a deleteAll that removed two records has returned after a create had
\* published, and nothing else has been published
C12_RemovedTwo ==
  \E c, d \in DOMAIN reqs :
    /\ reqs[c].op \in CreateOps /\ Returned(c)
    /\ reqs[d].op \in DeleteAllOps /\ Done(d) /\ Follows(d, c)
    /\ reqs[d].result = Count(2)
    /\ Len(published) = 1

(***************************************************************************)
(* Delivery.                                                               *)
(***************************************************************************)
\* the publications on the topic of subscriber s made since it registered
Heard(s) ==
  {i \in DOMAIN published :
     i > subs[s].from /\ published[i].topic = subs[s].topic}

Effect(doc, r) ==
  LET op == reqs[r].op
      c == CollectionOf(op)
      same(x) == x.id = Entity(r).id
  IN CASE op \in CreateOps /\ Returned(r) ->
            [doc EXCEPT ![c] = Append(@, Entity(r))]
       [] op \in UpdateOps /\ Returned(r) ->
            [doc EXCEPT ![c] = [i \in DOMAIN @ |->
                                 IF same(@[i]) THEN Entity(r) ELSE @[i]]]
       [] op \in DeleteOps /\ Returned(r) ->
            [doc EXCEPT ![c] = SelectSeq(@, LAMBDA x : ~same(x))]
       [] op \in DeleteAllOps /\ reqs[r].result.kind = "count" ->
            [doc EXCEPT ![c] = <<>>]
       [] OTHER -> doc

\* document doc after the requests of order have taken effect one by one
RECURSIVE Serial(_, _)
Serial(doc, order) ==
  IF order = <<>> THEN doc ELSE Serial(Effect(doc, Head(order)), Tail(order))

\* the orders in which the requests can be put
Orders ==
  {o \in [DOMAIN reqs -> DOMAIN reqs] : \A i, j \in DOMAIN reqs : i # j => o[i] # o[j]}

\* C14: once every request called has completed, ./data.json holds what some
\* one-by-one execution of the completed mutations leaves: the effect of none
\* is missing.
C14_Serializable ==
  (\A r \in DOMAIN reqs : Done(r))
  => \E o \in Orders : file = Serial(file0, o)

\* no request but m and q is a mutation on the collection of m
OnlyMutation(m, q) ==
  \A o \in DOMAIN reqs \ {m, q} : reqs[o].op \in GetOps \/ ~SameCollection(o, m)

\* C15: when a subscriber has been given the notification of a create, update
\* or delete, a get-by-id query called after the mutation with the id of the
\* payload's record, no other mutation having touched the collection, returns
\* the record as the payload shows it, and null after a delete.
C15_PersistedBeforePublished ==
  \A s \in DOMAIN subs : \A m, q \in DOMAIN reqs :
    ( /\ reqs[m].op \in CreateOps \cup UpdateOps \cup DeleteOps /\ Returned(m)
      /\ subs[s].topic = TopicOf(reqs[m].op) /\ Notified(s, m)
      /\ reqs[q].op \in GetOps /\ SameCollection(q, m)
      /\ Done(q) /\ Follows(q, m)
      /\ HasId(Entity(m), reqs[q].id)
      /\ OnlyMutation(m, q) )
    => reqs[q].result = IF reqs[m].op \in DeleteOps THEN Null ELSE Value(Entity(m))

(***************************************************************************)
(* Failure.                                                                *)
(***************************************************************************)
MutationOps == CreateOps \cup UpdateOps \cup DeleteOps \cup DeleteAllOps

\* C16: the step in which a mutation fails, readData having thrown or the id
\* not having been found, changes the result of that request and nothing
\* else: not ./data.json, not the publications made, no subscriber's queue,
\* not the ids to come, and no other request.
C16_FailureChangesNothing ==
  [][ \A r \in DOMAIN reqs :
        ( /\ Completes(r)
          /\ reqs[r].op \in MutationOps
          /\ reqs'[r].result.kind = "error" )
        => /\ UNCHANGED <<file, subs, published, nano, readable, timers, alive>>
           /\ \A o \in DOMAIN reqs \ {r} : reqs'[o] = reqs[o]
           /\ DOMAIN reqs' = DOMAIN reqs ]_vars

\* an update or delete has failed with not found, and a create called after
\* it has returned its record and published it, the only publication made
C16_FailedThenServed ==
  \E f, c \in DOMAIN reqs :
    /\ reqs[f].op \in UpdateOps \cup DeleteOps
    /\ Done(f) /\ reqs[f].result = NotFoundOf(reqs[f].op)
    /\ reqs[c].op \in CreateOps /\ Follows(c, f) /\ Returned(c)
    /\ Len(published) = 1
    /\ file = file0

(***************************************************************************)
(* Order.                                                                  *)
(***************************************************************************)
\* the publication e is one subscriber s is to be given: it is on the topic
\* of s and passes the filter of s, if the subscription has one
Wanted(s, e) ==
  LET variables == [user_id |-> subs[s].user_id]
  IN /\ e.topic = subs[s].topic
     /\ CASE e.topic = "eventCreated" -> eventCreated_filterFn(e.payload, variables)
          [] e.topic = "participantAdded" ->
               participantAdded_filterFn(e.payload, variables)
          [] OTHER -> TRUE

Parsed(r) == Done(r) /\ reqs[r].result # Error("readData failed")

\* C18: a mutation leaves the three collections of the other entity types as
\* they were, in the document it works on and in ./data.json; the events and
\* participants of a removed user stay.
C18_OtherCollectionsKept ==
  \A r \in DOMAIN reqs :
    (reqs[r].op \in MutationOps /\ Parsed(r))
    => \A c \in Collections \ {CollectionOf(reqs[r].op)} :
         reqs[r].jsonData[c] = file0[c] /\ file[c] = file0[c]

\* deleteUser has removed a user that an event refers to, and deleteAllUsers
\* has removed all users
C18_UserOfEventRemoved ==
  \E d, a \in DOMAIN reqs :
    /\ reqs[d].op = "deleteUser" /\ Returned(d)
    /\ \E i \in DOMAIN file0.events : file0.events[i].user_id = Entity(d).id
    /\ reqs[d].jsonData.users # file0.users
    /\ reqs[a].op = "deleteAllUsers" /\ Done(a) /\ reqs[a].result = Count(2)
    /\ reqs[a].jsonData.users = <<>>

\* C19: ./data.json is as it was when the server started; the document a
\* completed request worked on is that document with the request's own change
\* and no other; a list query returns the collection of that document, a
\* get-by-id query one of its records or null.
C19_PrivateCopies ==
  /\ file = file0
  /\ \A r \in DOMAIN reqs :
       Parsed(r) =>
         /\ reqs[r].jsonData = Effect(file0, r)
         /\ reqs[r].result.kind = "list"
              => reqs[r].result = List(file0[CollectionOf(reqs[r].op)])
         /\ (reqs[r].op \in GetOps /\ Returned(r))
              => \E i \in DOMAIN file0[CollectionOf(reqs[r].op)] :
                   Entity(r) = file0[CollectionOf(reqs[r].op)][i]

\* a create has changed its document, and a list query of the collection
\* called after it has returned the collection without the new record
C19_ChangeNotSeen ==
  \E c, q \in DOMAIN reqs :
    /\ reqs[c].op \in CreateOps /\ Returned(c)
    /\ reqs[c].jsonData # file0
    /\ reqs[q].result.kind = "list" /\ SameCollection(q, c) /\ Follows(q, c)
    /\ Len(reqs[q].result.recs) < Len(reqs[c].jsonData[CollectionOf(reqs[c].op)])

\* C20: once the callback an eventCount subscription scheduled has run, the
\* server is running and the subscriber has been given the payload with the
\* number of events.
C20_CountDelivered ==
  \A s \in DOMAIN subs :
    (subs[s].topic = "eventCount" /\ timers = 0)
    => /\ alive
       /\ \E k \in DOMAIN subs[s].queue :
            subs[s].queue[k] = Payload("eventCount", Len(file.events))

====
